---- MODULE Spec2Model ----
(***************************************************************************)
(* Model of the lead-generation system's text-feature extractor            *)
(* (scripts/enricher.py: CompanyEnricher.analyze and its five passes) and  *)
(* of the list serialisation between scripts/pipeline.py and               *)
(* scripts/email_composer.py (Spec); of the email templater (SpecEmail);   *)
(* of the batch loop of run_pipeline (SpecPipeline); of calls that share   *)
(* one extractor (SpecShared); of the validation store of app_validator.py *)
(* with one reviewer (SpecStore) and with two (SpecSessions).              *)
(*                                                                         *)
(* Strings are sequences of characters.  A Cyrillic letter is written as   *)
(* its Latin transliteration, one sequence element per letter ("shch" is   *)
(* one character); a Latin letter x of the source is written "lat_x"; an   *)
(* upper-case letter is the upper-case transliteration ("P", "SHCH").      *)
(***************************************************************************)
EXTENDS Integers, Sequences, FiniteSets, TLC

VARIABLES pc, text, company_id, doc, ret, nlp_calls, nlp_raised, lst, ser, parsed

vars == <<pc, text, company_id, doc, ret, nlp_calls, nlp_raised, lst, ser, parsed>>

\* the templater: the record analyze produced, the row read back from the
\* enriched table, the email generated for it
VARIABLES epc, feature_rec, company_data, email

emailVars == <<epc, feature_rec, company_data, email>>

\* run_pipeline: the input table, the loop position, the collected records
VARIABLES ppc, df, has_columns, row_i, results, analyze_calls

pipeVars == <<ppc, df, has_columns, row_i, results, analyze_calls>>

\* one extractor shared by calls in flight: the extractor's attributes, the
\* attributes as constructed, the iteration order of this process's sets,
\* the observed call and the other calls, what the observed call returned
VARIABLES enricher, enricher0, set_order, probe, pcall, ocall, probe_rets, probe_n, other_n

sharedVars == <<enricher, enricher0, set_order, probe, pcall, ocall, probe_rets, probe_n, other_n>>

\* the validation store: validated.csv, the save_validation calls in flight,
\* the calls made and returned, the companies the last batch wrote emails for
VARIABLES validated_csv, sess, saves, completed, emails

storeVars == <<validated_csv, sess, saves, completed, emails>>

\* the variables the extractor's actions leave alone
otherVars == <<emailVars, pipeVars, sharedVars, storeVars>>

\* the variables the templater's actions leave alone
notEmailVars == <<vars, pipeVars, sharedVars, storeVars>>

\* the variables the batch loop's actions leave alone
notPipeVars == <<vars, emailVars, sharedVars, storeVars>>

\* the variables the calls on the shared extractor leave alone
notSharedVars == <<vars, emailVars, pipeVars, storeVars>>

\* the variables the validation store's actions leave alone
notStoreVars == <<vars, emailVars, pipeVars, sharedVars>>

(***************************************************************************)
(* Bounds of the model.                                                    *)
(***************************************************************************)
MaxTextLen == 24
MaxBreaks == 1
MaxListLen == 2
MaxRows == 3
MaxProbeCalls == 2
MaxOtherCalls == 1
MaxSaves == 3

(***************************************************************************)
(* Configuration of CompanyEnricher (__init__ and setup_keys).             *)
(***************************************************************************)
min_text_length == 20

\* enricher.py 44-50
imp_kws ==
  << <<"i","m","p","o","r","t">>,
    <<"i","m","p","o","r","t","i","r","o","v","a","n","i","e">>,
    <<"v","v","o","z">>,
    <<"v","v","o","z","i","t","soft">>,
    <<"i","m","p","o","r","t","i","r","o","v","a","t","soft">>,
    <<"i","m","p","o","r","t","yo","r">>,
    <<"z","a","k","u","p","k","a">>,
    <<"z","a","k","u","p","a","t","soft">>,
    <<"p","o","s","t","a","v","l","ya","e","m"," ","i","z">>,
    <<"p","o","s","t","a","v","k","a">>,
    <<"p","o","s","t","a","v","l","ya","t","soft">>,
    <<"d","i","s","t","r","i","b","u","ts","i","ya">>,
    <<"d","i","s","t","r","i","b","soft","yu","t","o","r">>,
    <<"p","o","s","t","a","v","shch","i","k">>,
    <<"o","p","t","o","v","y","j">>,
    <<"o","p","t","o","m">>,
    <<"o","p","t">>,
    <<"r","e","eh","k","s","p","o","r","t">>,
    <<"eh","k","s","p","o","r","t","/","i","m","p","o","r","t">> >>

\* enricher.py 51-51
negations ==
  { <<"b","e","z">>,
    <<"n","e">>,
    <<"n","e","t">>,
    <<"n","i">>,
    <<"n","i","k","a","k">>,
    <<"n","i","k","o","g","d","a">> }

\* enricher.py 52-60
electronics ==
  << <<"m","i","k","r","o","s","kh","e","m","a">>,
    <<"i","n","t","e","g","r","a","l","soft","n","a","ya"," ","s","kh","e","m","a">>,
    <<"lat_i","lat_c","lat_s">>,
    <<"ch","i","p">>,
    <<"p","l","a","t","a">>,
    <<"k","o","n","t","r","o","l","l","e","r">>,
    <<"p","r","o","ts","e","s","s","o","r">>,
    <<"p","a","m","ya","t","soft">>,
    <<"m","o","d","u","l","soft">>,
    <<"r","a","d","i","o","d","e","t","a","l","soft">>,
    <<"k","o","n","d","e","n","s","a","t","o","r">>,
    <<"r","e","z","i","s","t","o","r">>,
    <<"t","r","a","n","z","i","s","t","o","r">>,
    <<"a","d","a","p","t","e","r">>,
    <<"r","a","z","hard","yo","m">>,
    <<"d","i","s","p","l","e","j">>,
    <<"eh","k","r","a","n">>,
    <<"s","m","a","r","t","f","o","n">>,
    <<"t","e","l","e","v","i","z","o","r">>,
    <<"n","o","u","t","b","u","k">>,
    <<"k","o","m","p","soft","yu","t","e","r">>,
    <<"k","o","m","p","o","n","e","n","t">>,
    <<"s","b","o","r","k","a">>,
    <<"eh","l","e","k","t","r","o","n","i","k","a">> >>

\* enricher.py 61-64
countries ==
  << <<"k","i","t","a","j">>,
    <<"k","n","d","r">>,
    <<"k","i","t","a","j","s","k","a","ya"," ","n","a","r","o","d","n","a","ya"," ","r","e","s","p","u","b","l","i","k","a">>,
    <<"t","a","j","v","a","n","soft">>,
    <<"k","o","r","e","ya">>,
    <<"yu","zh","n","a","ya"," ","k","o","r","e","ya">>,
    <<"yu","zh","."," ","k","o","r","e","ya">>,
    <<"ya","p","o","n","i","ya">>,
    <<"g","e","r","m","a","n","i","ya">>,
    <<"p","o","l","soft","sh","a">>,
    <<"s","sh","a">>,
    <<"s","o","e","d","i","n","e","n","n","y","e"," ","sh","t","a","t","y">>,
    <<"v","e","l","i","k","o","b","r","i","t","a","n","i","ya">>,
    <<"e","v","r","o","p","a">> >>

\* enricher.py 65-67
financial_lemmas ==
  { <<"d","o","l","l","a","r">>,
    <<"e","v","r","o">>,
    <<"m","i","l","l","i","a","r","d">>,
    <<"m","i","l","l","i","o","n">>,
    <<"m","l","n">>,
    <<"m","l","r","d">>,
    <<"r","u","b","l","soft">>,
    <<"t","y","s">>,
    <<"t","y","s","ya","ch","a">> }

\* enricher.py 128-133
indicators ==
  << <<"p","o","s","t","a","v","k","a">>,
    <<"p","o","s","t","a","v","o","k">>,
    <<"o","b","o","r","o","t">>,
    <<"o","b","hard","yo","m">>,
    <<"o","b","hard","e","m">>,
    <<"k","o","n","t","r","a","k","t">>,
    <<"k","o","n","t","r","a","k","t","y">>,
    <<"d","o","g","o","v","o","r">>,
    <<"d","o","g","o","v","o","r","y">>,
    <<"r","e","a","l","i","z","o","v","a","n","o">>,
    <<"p","r","o","d","a","n","o">>,
    <<"p","r","o","d","a","zh","i">>,
    <<"p","r","o","d","a","zh","a">>,
    <<"k","l","i","e","n","t">>,
    <<"k","l","i","e","n","t","y">>,
    <<"p","a","r","t","n","yo","r">>,
    <<"p","a","r","t","n","yo","r","y">>,
    <<"p","o","s","t","a","v","shch">>,
    <<"z","a","k","u","p","k">>,
    <<"z","a","k","u","p","k","i">>,
    <<"z","a","k","a","z">>,
    <<"z","a","k","a","z","y">>,
    <<"p","r","o","e","k","t">>,
    <<"p","r","o","e","k","t","y">>,
    <<"eh","k","s","p","o","r","t">>,
    <<"i","m","p","o","r">> >>

\* enricher.py 157-158
time_indicators ==
  << <<"p","o","s","l","e","d","n","i","j"," ","g","o","d">>,
    <<"v"," ","eh","t","o","m"," ","g","o","d","u">>,
    <<"z","a"," ","p","o","s","l","e","d","n","i","j"," ","g","o","d">>,
    <<"n","e","d","a","v","n","o">>,
    <<"v"," ","p","r","o","sh","l","o","m"," ","g","o","d","u">>,
    <<"2","0","2","5">> >>

UpperLower ==
  { <<"A","a">>,
    <<"B","b">>,
    <<"V","v">>,
    <<"G","g">>,
    <<"D","d">>,
    <<"E","e">>,
    <<"YO","yo">>,
    <<"ZH","zh">>,
    <<"Z","z">>,
    <<"I","i">>,
    <<"J","j">>,
    <<"K","k">>,
    <<"L","l">>,
    <<"M","m">>,
    <<"N","n">>,
    <<"O","o">>,
    <<"P","p">>,
    <<"R","r">>,
    <<"S","s">>,
    <<"T","t">>,
    <<"U","u">>,
    <<"F","f">>,
    <<"KH","kh">>,
    <<"TS","ts">>,
    <<"CH","ch">>,
    <<"SH","sh">>,
    <<"SHCH","shch">>,
    <<"HARD","hard">>,
    <<"Y","y">>,
    <<"SOFT","soft">>,
    <<"EH","eh">>,
    <<"YU","yu">>,
    <<"YA","ya">> }

(***************************************************************************)
(* The words the input texts are made of: the surface form as it stands in *)
(* the raw text and the lemma the tokenizer gives for it.  The lemmatizer  *)
(* of the Russian pipeline returns lower-case normal forms.                *)
(***************************************************************************)
W_ne == [text |-> <<"n","e">>,
  lemma |-> <<"n","e">>]
W_postavlyaem == [text |-> <<"P","o","s","t","a","v","l","ya","e","m">>,
  lemma |-> <<"p","o","s","t","a","v","l","ya","t","soft">>]
W_izdeliya == [text |-> <<"i","z","d","e","l","i","ya">>,
  lemma |-> <<"i","z","d","e","l","i","e">>]
W_ehlektroniku == [text |-> <<"eh","l","e","k","t","r","o","n","i","k","u">>,
  lemma |-> <<"eh","l","e","k","t","r","o","n","i","k","a">>]
W_kitaya == [text |-> <<"k","i","t","a","ya">>,
  lemma |-> <<"k","i","t","a","j">>]
W_oborot == [text |-> <<"o","b","o","r","o","t">>,
  lemma |-> <<"o","b","o","r","o","t">>]
W_zakupki == [text |-> <<"z","a","k","u","p","k","i">>,
  lemma |-> <<"z","a","k","u","p","k","a">>]
W_rublej == [text |-> <<"r","u","b","l","e","j">>,
  lemma |-> <<"r","u","b","l","soft">>]
W_g2025 == [text |-> <<"2","0","2","5","g">>,
  lemma |-> <<"2","0","2","5","g">>]

Words == { W_ne, W_postavlyaem, W_izdeliya, W_ehlektroniku, W_kitaya, W_oborot, W_zakupki, W_rublej, W_g2025 }

(***************************************************************************)
(* Python values and string operations, character by character.            *)
(***************************************************************************)
\* Python's None, where a string is expected: told apart from every string
None == <<"None">>

NoId == "None"

Falsy(t) == t = None \/ t = <<>>

LowerMap ==
  [c \in { p[1] : p \in UpperLower } |-> (CHOOSE p \in UpperLower : p[1] = c)[2]]

LowerChar(c) == IF c \in DOMAIN LowerMap THEN LowerMap[c] ELSE c

str_lower(s) == [i \in 1..Len(s) |-> LowerChar(s[i])]

\* Python's "p in s" on strings
IsSubstring(p, s) ==
  \E i \in 0..(Len(s) - Len(p)) : SubSeq(s, i + 1, i + Len(p)) = p

RECURSIVE str_join(_, _)
str_join(sep, items) ==
  IF Len(items) = 0 THEN <<>>
  ELSE IF Len(items) = 1 THEN items[1]
  ELSE items[1] \o sep \o str_join(sep, Tail(items))

Range(s) == { s[i] : i \in 1..Len(s) }

RECURSIVE Flatten(_)
Flatten(ss) == IF Len(ss) = 0 THEN <<>> ELSE ss[1] \o Flatten(Tail(ss))

Reverse(s) == [i \in 1..Len(s) |-> s[Len(s) + 1 - i]]

\* every list that enumerates the set S once: the orders list(set(...)) can give
Orderings(S) ==
  { s \in [1..Cardinality(S) -> S] : \A i, j \in 1..Cardinality(S) : s[i] = s[j] => i = j }

(***************************************************************************)
(* The tokenizer (spaCy, external): a text is a run of words separated by  *)
(* one space; the tokenizer returns the words of the lower-cased text as   *)
(* tokens, each with its lemma, grouped into sentences of its choosing,    *)
(* or it raises.                                                           *)
(***************************************************************************)
RECURSIVE WordSeqsWithin(_)
WordSeqsWithin(budget) ==
  {<<>>} \cup
  UNION { { <<w>> \o r : r \in WordSeqsWithin(budget - Len(w.text) - 1) } :
          w \in { v \in Words : Len(v.text) + 1 <= budget } }

InputWordSeqs == WordSeqsWithin(MaxTextLen + 1)

RawText(ws) == str_join(<<" ">>, [i \in 1..Len(ws) |-> ws[i].text])

Token(w) == [text |-> str_lower(w.text), lemma |-> w.lemma]

RECURSIVE SplitAt(_, _)
SplitAt(toks, breaks) ==
  IF breaks = {} THEN <<toks>>
  ELSE LET b == CHOOSE x \in breaks : \A y \in breaks : y <= x
       IN  Append(SplitAt(SubSeq(toks, 1, b), breaks \ {b}),
                  SubSeq(toks, b + 1, Len(toks)))

BreakSets(n) ==
  { B \in SUBSET (1..(n - 1)) : Cardinality(B) <= MaxBreaks }

SentText(sent) == str_join(<<" ">>, [i \in 1..Len(sent) |-> sent[i].text])

DocTokens(d) == Flatten(d.sents)

\* the documents self.nlp(s) can return for the string s and the words ws
nlp(s, ws) ==
  { [text |-> s, sents |-> SplitAt([i \in 1..Len(ws) |-> Token(ws[i])], B)] :
      B \in BreakSets(Len(ws)) }

NoDoc == [text |-> <<>>, sents |-> <<>>]

(***************************************************************************)
(* CompanyEnricher: the five passes over the parsed document.              *)
(***************************************************************************)
HasSpace(keyword) == \E i \in 1..Len(keyword) : keyword[i] = " "

SentLemmas(sent) == [i \in 1..Len(sent) |-> str_lower(sent[i].lemma)]

\* faulty variant: the lookback window one token wider
HasNegation_window3(sent_lemmas, k) ==
  \/ k >= 2 /\ sent_lemmas[k - 1] \in negations
  \/ k >= 3 /\ sent_lemmas[k - 2] \in negations
  \/ k >= 4 /\ sent_lemmas[k - 3] \in negations

\* enricher.py 91-97, with Python's index i = k - 1
HasNegation(sent_lemmas, k) ==
  \/ k >= 2 /\ sent_lemmas[k - 1] \in negations
  \/ k >= 3 /\ sent_lemmas[k - 2] \in negations

\* enricher.py 85-100: does this keyword make _detect_importer return True
KeywordHit(sent_text, sent_lemmas, keyword) ==
  IF HasSpace(keyword)
  THEN IsSubstring(keyword, sent_text)
  ELSE \E k \in 1..Len(sent_lemmas) :
         /\ sent_lemmas[k] = str_lower(keyword)
         /\ ~HasNegation(sent_lemmas, k)

RECURSIVE ScanKeywords(_, _, _, _)
ScanKeywords(sent_text, sent_lemmas, kws, j) ==
  IF j > Len(kws) THEN FALSE
  ELSE IF KeywordHit(sent_text, sent_lemmas, kws[j]) THEN TRUE
  ELSE ScanKeywords(sent_text, sent_lemmas, kws, j + 1)

RECURSIVE ScanSents(_, _, _)
ScanSents(sents, kws, s) ==
  IF s > Len(sents) THEN FALSE
  ELSE IF ScanKeywords(SentText(sents[s]), SentLemmas(sents[s]), kws, 1) THEN TRUE
  ELSE ScanSents(sents, kws, s + 1)

_detect_importer(d) == ScanSents(d.sents, imp_kws, 1)

DocLemmasLower(d) ==
  [i \in 1..Len(DocTokens(d)) |-> str_lower(DocTokens(d)[i].lemma)]

Found(d, keys) == SelectSeq(DocLemmasLower(d), LAMBDA l : l \in Range(keys))

\* faulty variant: found returned as collected, without set()
_extract_nodedup(d, keys) == { Found(d, keys) }

\* the lists list(set(found)) can be
_extract(d, keys) == Orderings(Range(Found(d, keys)))

IsPrefix(p, s) == Len(p) <= Len(s) /\ SubSeq(s, 1, Len(p)) = p

\* faulty variant: a listed stem matches every lemma that starts with it
_find_indicators_prefix(d) ==
  Len(SelectSeq(DocLemmasLower(d),
                LAMBDA l : \E i \in 1..Len(indicators) : IsPrefix(indicators[i], l)))

_find_indicators(d) ==
  Len(SelectSeq(DocLemmasLower(d), LAMBDA l : l \in Range(indicators)))

\* faulty variant: the surface form compared instead of the lemma
_has_financial_text(d) ==
  { DocTokens(d)[i].text : i \in 1..Len(DocTokens(d)) } \cap financial_lemmas # {}

_has_financial(d) ==
  { DocTokens(d)[i].lemma : i \in 1..Len(DocTokens(d)) } \cap financial_lemmas # {}

\* faulty variant: a phrase counts only as a whole token
_detect_recent_activity_token(d) ==
  \E i \in 1..Len(time_indicators) :
    \E k \in 1..Len(DocTokens(d)) : DocTokens(d)[k].text = time_indicators[i]

_detect_recent_activity(d) ==
  \E i \in 1..Len(time_indicators) : IsSubstring(time_indicators[i], d.text)

\* faulty variant: one default left at a non-default value
_empty_partial(id) ==
  [ company_id |-> id,
    is_importer |-> FALSE,
    product_mentions |-> <<>>,
    mentioned_countries |-> <<>>,
    activity_indicators |-> 0,
    processed |-> FALSE,
    has_financial_indicators |-> FALSE,
    recent_activity |-> TRUE ]

_empty(id) ==
  [ company_id |-> id,
    is_importer |-> FALSE,
    product_mentions |-> <<>>,
    mentioned_countries |-> <<>>,
    activity_indicators |-> 0,
    processed |-> FALSE,
    has_financial_indicators |-> FALSE,
    recent_activity |-> FALSE ]

\* enricher.py 208-217, for each order the two lists can come out in
Features(d, id) ==
  { [ company_id |-> id,
      is_importer |-> _detect_importer(d),
      product_mentions |-> pm,
      mentioned_countries |-> mc,
      activity_indicators |-> _find_indicators(d),
      processed |-> TRUE,
      has_financial_indicators |-> _has_financial(d),
      recent_activity |-> _detect_recent_activity(d) ] :
    pm \in _extract(d, electronics), mc \in _extract(d, countries) }

\* faulty variant: the length test dropped from the guard
TooShort_nolength(t) == Falsy(t)

TooShort(t) == Falsy(t) \/ Len(t) < min_text_length

Returned(rec) == [kind |-> "return", value |-> rec]

Raised == [kind |-> "raise", value |-> _empty(NoId)]

NoRet == [kind |-> "none", value |-> _empty(NoId)]

\* faulty variant: no except branch, the error reaches the caller
OnTokenizerError_propagate(id) == Raised

\* enricher.py 204-206: the except branch
OnTokenizerError(id) == Returned(_empty(id))

(***************************************************************************)
(* pipeline.py 74-77 and EmailComposer._parse_list.                        *)
(***************************************************************************)
\* ", ".join(map(str, x)) for a list of strings
SerializeList(x) == str_join(<<",", " ">>, x)

RECURSIVE LStrip(_, _)
LStrip(s, chars) ==
  IF Len(s) > 0 /\ s[1] \in chars THEN LStrip(Tail(s), chars) ELSE s

str_strip(s, chars) == Reverse(LStrip(Reverse(LStrip(s, chars)), chars))

str_remove(s, c) == SelectSeq(s, LAMBDA x : x # c)

RECURSIVE str_split(_, _)
str_split(s, sep) ==
  IF \E i \in 1..Len(s) : s[i] = sep
  THEN LET i == CHOOSE k \in 1..Len(s) : s[k] = sep /\ \A m \in 1..(k - 1) : s[m] # sep
       IN  <<SubSeq(s, 1, i - 1)>> \o str_split(SubSeq(s, i + 1, Len(s)), sep)
  ELSE <<s>>

Whitespace == {" ", "\t", "\n"}

\* faulty variant: the items are not stripped
_parse_list_nostrip(list_str) ==
  IF Falsy(list_str) \/ list_str = <<"[", "]">> THEN <<>>
  ELSE LET clean == str_remove(str_remove(str_strip(list_str, {"[", "]"}), "'"), "\"")
           parts == str_split(clean, ",")
       IN  SelectSeq(parts, LAMBDA it : it # <<>>)

_parse_list(list_str) ==
  IF Falsy(list_str) \/ list_str = <<"[", "]">> THEN <<>>
  ELSE LET clean == str_remove(str_remove(str_strip(list_str, {"[", "]"}), "'"), "\"")
           parts == str_split(clean, ",")
           items == [i \in 1..Len(parts) |-> str_strip(parts[i], Whitespace)]
       IN  SelectSeq(items, LAMBDA it : it # <<>>)

ListValues(keys) ==
  UNION { { s \in [1..n -> Range(keys)] : \A i, j \in 1..n : s[i] = s[j] => i = j } :
          n \in 0..MaxListLen }

(***************************************************************************)
(* The state machine.                                                      *)
(***************************************************************************)
Ids == {"7701000001", "7702000002"}

NoEmail ==
  [ subject |-> [template |-> "none", product |-> <<>>],
    body |-> [name |-> "none", facts |-> <<>>, value_prop |-> "none"],
    personalization_score |-> 0 ]

\* pipeline.py 74-77: every list cell of a record becomes a string
StoredRow(rec) ==
  [ rec EXCEPT !.product_mentions = SerializeList(rec.product_mentions),
               !.mentioned_countries = SerializeList(rec.mentioned_countries) ]

NoRow == StoredRow(_empty(NoId))

EmailIdle ==
  /\ epc = "idle"
  /\ feature_rec = _empty(NoId)
  /\ company_data = NoRow
  /\ email = NoEmail

PipelineIdle ==
  /\ ppc = "idle"
  /\ df = <<>>
  /\ has_columns = TRUE
  /\ row_i = 1
  /\ results = <<>>
  /\ analyze_calls = <<>>

ExtractorIdle ==
  /\ pc = "idle"
  /\ text = None
  /\ company_id = NoId
  /\ doc = NoDoc
  /\ ret = NoRet
  /\ nlp_calls = 0
  /\ nlp_raised = FALSE
  /\ lst = <<>>
  /\ ser = <<>>
  /\ parsed = <<>>

\* enricher.py 20-67: the attributes __init__ and setup_keys assign
CompanyEnricher(tokenizer) ==
  [ nlp |-> tokenizer,
    min_text_length |-> min_text_length,
    imp_kws |-> imp_kws,
    negations |-> negations,
    electronics |-> electronics,
    countries |-> countries,
    financial_lemmas |-> financial_lemmas,
    indicators |-> indicators,
    time_indicators |-> time_indicators ]

NoCall == [pc |-> "idle", words |-> <<>>, id |-> NoId, out |-> NoRet, sents |-> {}]

SharedIdle ==
  /\ enricher = CompanyEnricher(<<>>)
  /\ enricher0 = enricher
  /\ set_order = <<>>
  /\ probe = [words |-> <<>>, id |-> NoId]
  /\ pcall = NoCall
  /\ ocall = NoCall
  /\ probe_rets = {}
  /\ probe_n = 0
  /\ other_n = 0

\* validated.csv does not exist
NoFile == [exists |-> FALSE, rows |-> <<>>]

NoSession ==
  [pc |-> "idle", company_id |-> [type |-> "str", repr |-> NoId],
   is_active_importer |-> "none", validated |-> <<>>]

NoEmails == [called |-> FALSE, only_validated |-> FALSE, company_ids |-> <<>>]

Sessions == {1, 2}

StoreIdle ==
  /\ validated_csv = NoFile
  /\ sess = [s \in Sessions |-> NoSession]
  /\ saves = 0
  /\ completed = {}
  /\ emails = NoEmails

Init ==
  /\ ExtractorIdle
  /\ EmailIdle
  /\ PipelineIdle
  /\ SharedIdle
  /\ StoreIdle

\* analyze, guard taken (enricher.py 199-200)
AnalyzeShort(t, id) ==
  /\ pc = "idle"
  /\ TooShort(t)
  /\ pc' = "returned"
  /\ text' = t
  /\ company_id' = id
  /\ ret' = Returned(_empty(id))
  /\ UNCHANGED <<doc, nlp_calls, nlp_raised, lst, ser, parsed>>

\* analyze, the tokenizer raises (enricher.py 202-206)
AnalyzeTokenizerError(t, id) ==
  /\ pc = "idle"
  /\ ~TooShort(t)
  /\ pc' = "returned"
  /\ text' = t
  /\ company_id' = id
  /\ nlp_calls' = nlp_calls + 1
  /\ nlp_raised' = TRUE
  /\ ret' = OnTokenizerError(id)
  /\ UNCHANGED <<doc, lst, ser, parsed>>

\* analyze, the tokenizer returns a document (enricher.py 202-219)
AnalyzeOk(ws, id) ==
  /\ pc = "idle"
  /\ ~TooShort(RawText(ws))
  /\ \E d \in nlp(str_lower(RawText(ws)), ws) :
       /\ str_join(<<" ">>, [i \in 1..Len(d.sents) |-> SentText(d.sents[i])]) = d.text
       /\ doc' = d
       /\ \E rec \in Features(d, id) : ret' = Returned(rec)
  /\ pc' = "returned"
  /\ text' = RawText(ws)
  /\ company_id' = id
  /\ nlp_calls' = nlp_calls + 1
  /\ UNCHANGED <<nlp_raised, lst, ser, parsed>>

\* the caller drops the record and the next call starts
NextCall ==
  /\ pc = "returned"
  /\ pc' = "idle"
  /\ text' = None
  /\ company_id' = NoId
  /\ doc' = NoDoc
  /\ ret' = NoRet
  /\ nlp_calls' = 0
  /\ nlp_raised' = FALSE
  /\ UNCHANGED <<lst, ser, parsed>>

\* pipeline.py 74-77 on one list cell
Serialize(x) ==
  /\ pc = "idle"
  /\ pc' = "serialized"
  /\ lst' = x
  /\ ser' = SerializeList(x)
  /\ UNCHANGED <<text, company_id, doc, ret, nlp_calls, nlp_raised, parsed>>

\* email_composer.py 52-53: the templater reads the cell back
ParseBack ==
  /\ pc = "serialized"
  /\ pc' = "parsed"
  /\ parsed' = _parse_list(ser)
  /\ UNCHANGED <<text, company_id, doc, ret, nlp_calls, nlp_raised, lst, ser>>

NextCell ==
  /\ pc = "parsed"
  /\ pc' = "idle"
  /\ lst' = <<>>
  /\ ser' = <<>>
  /\ parsed' = <<>>
  /\ UNCHANGED <<text, company_id, doc, ret, nlp_calls, nlp_raised>>

InputTexts == {None} \cup { RawText(ws) : ws \in InputWordSeqs }

Next ==
  \/ /\ pc = "idle"
     /\ \E t \in InputTexts, id \in Ids : AnalyzeShort(t, id)
     /\ UNCHANGED otherVars
  \/ /\ pc = "idle"
     /\ \E ws \in InputWordSeqs, id \in Ids : AnalyzeTokenizerError(RawText(ws), id)
     /\ UNCHANGED otherVars
  \/ /\ pc = "idle"
     /\ \E ws \in InputWordSeqs, id \in Ids : AnalyzeOk(ws, id)
     /\ UNCHANGED otherVars
  \/ NextCall /\ UNCHANGED otherVars
  \/ /\ pc = "idle"
     /\ \E x \in ListValues(electronics) \cup ListValues(countries) : Serialize(x)
     /\ UNCHANGED otherVars
  \/ ParseBack /\ UNCHANGED otherVars
  \/ NextCell /\ UNCHANGED otherVars

Spec == Init /\ [][Next]_<<vars, otherVars>>

(***************************************************************************)
(* Properties.                                                             *)
(***************************************************************************)
Rec == ret.value

Analyzed == pc = "returned" /\ ret.kind = "return" /\ Rec.processed

DefaultRecord(id) ==
  [ company_id |-> id,
    is_importer |-> FALSE,
    product_mentions |-> <<>>,
    mentioned_countries |-> <<>>,
    activity_indicators |-> 0,
    processed |-> FALSE,
    has_financial_indicators |-> FALSE,
    recent_activity |-> FALSE ]

TextAbsentOrShort == text = None \/ Len(text) < min_text_length

\* C1: a returned record has processed = false only when the text was
\* null/empty, shorter than min_text_length, or the tokenizer raised; such a
\* record holds the default in every other field and the id passed in, so no
\* record is partially populated.
C1_UnprocessedIsDefault ==
  (pc = "returned" /\ ret.kind = "return") =>
    /\ Rec.company_id = company_id
    /\ ~Rec.processed => /\ TextAbsentOrShort \/ nlp_raised
                         /\ Rec = DefaultRecord(company_id)

C1_Witness ==
  /\ pc = "returned"
  /\ ret.kind = "return"
  /\ ~Rec.processed
  /\ nlp_raised
  /\ ~TextAbsentOrShort

\* C2: for a text that is null, empty or shorter than min_text_length, analyze
\* returns the default record with processed = false and the tokenizer is not
\* invoked during the call.
C2_ShortTextSkipsTokenizer ==
  (pc = "returned" /\ TextAbsentOrShort) =>
    /\ ret = [kind |-> "return", value |-> DefaultRecord(company_id)]
    /\ nlp_calls = 0

C2_Witness ==
  /\ pc = "returned"
  /\ text # None
  /\ Len(text) > 0
  /\ Len(text) < min_text_length
  /\ nlp_calls = 0
  /\ ~Rec.processed

\* C3: when the tokenizer raises on a text that passed the length guard,
\* analyze returns (it does not raise) the default record for that id.
C3_TokenizerErrorAbsorbed ==
  (pc = "returned" /\ nlp_raised) =>
    /\ ret.kind = "return"
    /\ Rec = DefaultRecord(company_id)

C3_Witness ==
  /\ pc = "returned"
  /\ nlp_raised
  /\ nlp_calls = 1
  /\ Len(text) >= min_text_length
  /\ ret.kind = "return"

SingleWordKws == { kw \in Range(imp_kws) : ~HasSpace(kw) }

MultiWordKws == { kw \in Range(imp_kws) : HasSpace(kw) }

\* the offset (from 0) at which token k of a sentence starts in its text
RECURSIVE TokenStart(_, _)
TokenStart(sent, k) ==
  IF k = 1 THEN 0 ELSE TokenStart(sent, k - 1) + Len(sent[k - 1].text) + 1

NegatedAt(sent, k) ==
  \/ k >= 2 /\ sent[k - 1].lemma \in negations
  \/ k >= 3 /\ sent[k - 2].lemma \in negations

\* every occurrence of an import keyword in the sentence, as a lemma or as a
\* phrase that starts in some token, has a negation one or two tokens before
AllOccurrencesNegated(sent) ==
  /\ \A k \in 1..Len(sent) :
       sent[k].lemma \in SingleWordKws => NegatedAt(sent, k)
  /\ \A kw \in MultiWordKws :
       \A off \in 0..(Len(SentText(sent)) - Len(kw)) :
         SubSeq(SentText(sent), off + 1, off + Len(kw)) = kw =>
           \E k \in 1..Len(sent) :
             /\ TokenStart(sent, k) <= off
             /\ off < TokenStart(sent, k) + Len(sent[k].text)
             /\ NegatedAt(sent, k)

\* C4: when every occurrence of an import keyword is preceded, within two
\* tokens of the same sentence, by a negation lemma, is_importer is false.
C4_NegatedImportIsNotImporter ==
  (Analyzed /\ \A s \in 1..Len(doc.sents) : AllOccurrencesNegated(doc.sents[s]))
    => ~Rec.is_importer

\* the sentence index of every token of the document, in document order
SentIndex(d) ==
  Flatten([s \in 1..Len(d.sents) |-> [k \in 1..Len(d.sents[s]) |-> s]])

UnsuppressedLemma(d, g) ==
  /\ DocTokens(d)[g].lemma \in SingleWordKws
  /\ \A back \in {1, 2} :
       (g - back >= 1 /\ SentIndex(d)[g - back] = SentIndex(d)[g])
         => DocTokens(d)[g - back].lemma \notin negations

UnsuppressedMatch(d) ==
  \/ \E s \in 1..Len(d.sents) :
       \E kw \in MultiWordKws : IsSubstring(kw, SentText(d.sents[s]))
  \/ \E g \in 1..Len(DocTokens(d)) : UnsuppressedLemma(d, g)

NoDuplicates(l) == \A i, j \in 1..Len(l) : l[i] = l[j] => i = j

DocLemmas(d) == { DocTokens(d)[i].lemma : i \in 1..Len(DocTokens(d)) }

\* C6: product_mentions and mentioned_countries hold no entry twice, and hold
\* exactly the lemmas of the document that are electronics keywords,
\* respectively country keywords.
C6_MentionsAreKeywordLemmaSets ==
  Analyzed =>
    /\ NoDuplicates(Rec.product_mentions)
    /\ NoDuplicates(Rec.mentioned_countries)
    /\ Range(Rec.product_mentions) = DocLemmas(doc) \cap Range(electronics)
    /\ Range(Rec.mentioned_countries) = DocLemmas(doc) \cap Range(countries)

\* a country keyword four times, or an electronics keyword twice
C6_Witness ==
  /\ Analyzed
  /\ Len(Rec.product_mentions) = 1
  /\ \E i, j \in 1..Len(DocTokens(doc)) :
       /\ i # j
       /\ DocTokens(doc)[i].lemma = Rec.product_mentions[1]
       /\ DocTokens(doc)[j].lemma = Rec.product_mentions[1]

IndicatorPositions(d) ==
  { i \in 1..Len(DocTokens(d)) : DocTokens(d)[i].lemma \in Range(indicators) }

\* C7: activity_indicators is the number of tokens, repeats included, whose
\* lemma equals a member of the indicator list; a lemma that only starts with
\* a listed stem is not counted.
C7_IndicatorCountIsExactMatchCount ==
  Analyzed => Rec.activity_indicators = Cardinality(IndicatorPositions(doc))

\* one indicator lemma twice, beside a lemma that starts with a listed stem
C7_Witness ==
  /\ Analyzed
  /\ Rec.activity_indicators = 2
  /\ \E i, j \in IndicatorPositions(doc) :
       i # j /\ DocTokens(doc)[i].lemma = DocTokens(doc)[j].lemma
  /\ \E k \in 1..Len(DocTokens(doc)) :
       /\ k \notin IndicatorPositions(doc)
       /\ \E n \in 1..Len(indicators) : IsPrefix(indicators[n], DocTokens(doc)[k].lemma)

\* C8: has_financial_indicators is true exactly when some token lemma of the
\* document is in the financial lemma set, wherever and however often.
C8_FinancialIffSomeLemma ==
  Analyzed =>
    Rec.has_financial_indicators =
      (\E i \in 1..Len(DocTokens(doc)) : DocTokens(doc)[i].lemma \in financial_lemmas)

\* the financial lemma is the last token only
C8_Witness ==
  /\ Analyzed
  /\ Rec.has_financial_indicators
  /\ Len(DocTokens(doc)) >= 3
  /\ \A i \in 1..Len(DocTokens(doc)) :
       DocTokens(doc)[i].lemma \in financial_lemmas <=> i = Len(DocTokens(doc))

\* C9: recent_activity is true exactly when a recency phrase is a substring of
\* the lower-cased raw text, however the text is split into tokens.
C9_RecentIffSubstringOfLoweredText ==
  Analyzed =>
    Rec.recent_activity =
      (\E i \in 1..Len(time_indicators) : IsSubstring(time_indicators[i], str_lower(text)))

\* the phrase lies inside a longer word and is no token of the document
C9_Witness ==
  /\ Analyzed
  /\ Rec.recent_activity
  /\ \A k \in 1..Len(DocTokens(doc)) :
       DocTokens(doc)[k].text \notin Range(time_indicators)
  /\ \E k \in 1..Len(DocTokens(doc)) :
       \E i \in 1..Len(time_indicators) :
         /\ IsSubstring(time_indicators[i], DocTokens(doc)[k].text)
         /\ Len(DocTokens(doc)[k].text) > Len(time_indicators[i])

\* C10: a list of electronics or country keywords, serialised to a delimited
\* string and parsed back by _parse_list, gives the same set of items.
C10_ListRoundTrip ==
  pc = "parsed" => Range(parsed) = Range(lst) /\ Len(parsed) = Len(lst)

\* two items, one of them a keyword with a space in it
C10_Witness ==
  /\ pc = "parsed"
  /\ Len(lst) = 2
  /\ \E i \in 1..2 : HasSpace(lst[i])
  /\ Range(parsed) = Range(lst)

(***************************************************************************)
(* EmailComposer (scripts/email_composer.py).  A subject or a body is      *)
(* written as the template chosen and the values put into it.              *)
(***************************************************************************)
DefaultName == "colleagues"

Prefix(l, n) == SubSeq(l, 1, IF Len(l) < n THEN Len(l) ELSE n)

\* faulty variant: the countries_ weighted like a minor fact
PersonalizationScore_countries1(is_importer, products, countries_, has_financial, recent) ==
  (IF is_importer THEN 3 ELSE 0) + (IF products # <<>> THEN 2 ELSE 0)
  + (IF countries_ # <<>> THEN 1 ELSE 0) + (IF has_financial THEN 1 ELSE 0)
  + (IF recent THEN 1 ELSE 0)

\* email_composer.py 58-81: the additions to personalization_score
PersonalizationScore(is_importer, products, countries_, has_financial, recent) ==
  (IF is_importer THEN 3 ELSE 0) + (IF products # <<>> THEN 2 ELSE 0)
  + (IF countries_ # <<>> THEN 2 ELSE 0) + (IF has_financial THEN 1 ELSE 0)
  + (IF recent THEN 1 ELSE 0)

\* email_composer.py 59-81: the facts, in the order they are appended
Facts(is_importer, products, countries_, has_financial, recent) ==
  (IF is_importer THEN <<[kind |-> "import", items |-> <<>>]>> ELSE <<>>)
  \o (IF products # <<>>
      THEN <<[kind |-> "products", items |-> Prefix(products, 3)]>> ELSE <<>>)
  \o (IF countries_ # <<>>
      THEN <<[kind |-> "countries_", items |-> Prefix(countries_, 2)]>> ELSE <<>>)
  \o (IF has_financial THEN <<[kind |-> "commercial", items |-> <<>>]>> ELSE <<>>)
  \o (IF recent THEN <<[kind |-> "this_year", items |-> <<>>]>> ELSE <<>>)

\* faulty variant: the middle subject chosen by the score, not by is_importer
_generate_subject_by_score(is_importer, products, score) ==
  IF score >= 5
  THEN IF products # <<>>
       THEN [template |-> "supply_optimisation", product |-> products[1]]
       ELSE [template |-> "special_offer", product |-> <<>>]
  ELSE IF score >= 3
       THEN [template |-> "solutions_for_importers", product |-> <<>>]
       ELSE [template |-> "offer_from_sender", product |-> <<>>]

_generate_subject(is_importer, products, score) ==
  IF score >= 5
  THEN IF products # <<>>
       THEN [template |-> "supply_optimisation", product |-> products[1]]
       ELSE [template |-> "special_offer", product |-> <<>>]
  ELSE IF is_importer
       THEN [template |-> "solutions_for_importers", product |-> <<>>]
       ELSE [template |-> "offer_from_sender", product |-> <<>>]

_generate_body(company_name, facts, score) ==
  [ name |-> company_name,
    facts |-> facts,
    value_prop |-> IF score >= 5 THEN "specialises"
                   ELSE IF score >= 3 THEN "clients_on_average"
                   ELSE "offers" ]

generate_email(cd) ==
  LET is_importer == cd.is_importer
      products == _parse_list(cd.product_mentions)
      countries_ == _parse_list(cd.mentioned_countries)
      has_financial == cd.has_financial_indicators
      recent == cd.recent_activity
      score == PersonalizationScore(is_importer, products, countries_, has_financial, recent)
      facts == Facts(is_importer, products, countries_, has_financial, recent)
  IN  [ subject |-> _generate_subject(is_importer, products, score),
        body |-> _generate_body(DefaultName, facts, score),
        personalization_score |-> score ]

\* the records the templater is given: the lists over the first keywords
EmailFeatureRecords ==
  { _empty(id) : id \in Ids } \cup
  { [ company_id |-> id,
      is_importer |-> imp,
      product_mentions |-> pl,
      mentioned_countries |-> cl,
      activity_indicators |-> 0,
      processed |-> TRUE,
      has_financial_indicators |-> fin,
      recent_activity |-> rec ] :
    id \in Ids, imp \in BOOLEAN, fin \in BOOLEAN, rec \in BOOLEAN,
    pl \in ListValues(SubSeq(electronics, 1, 3)),
    cl \in ListValues(SubSeq(countries, 1, 2)) }

\* the record is stored by the pipeline and the email is generated for its row
GenerateEmail(fr) ==
  /\ epc = "idle"
  /\ epc' = "generated"
  /\ feature_rec' = fr
  /\ company_data' = StoredRow(fr)
  /\ email' = generate_email(StoredRow(fr))
  /\ UNCHANGED notEmailVars

NextEmail ==
  /\ epc = "generated"
  /\ epc' = "idle"
  /\ feature_rec' = _empty(NoId)
  /\ company_data' = NoRow
  /\ email' = NoEmail
  /\ UNCHANGED notEmailVars

NextEmailSpec ==
  \/ /\ epc = "idle"
     /\ \E fr \in EmailFeatureRecords : GenerateEmail(fr)
  \/ NextEmail

SpecEmail == Init /\ [][NextEmailSpec]_<<vars, otherVars>>

Bit(b) == IF b THEN 1 ELSE 0

\* C11: personalization_score is 3 for an importer, plus 2 for products, plus
\* 2 for countries, plus 1 for financial indicators, plus 1 for recent
\* activity; it lies in 0..9, and an importer with one product and nothing
\* else scores 5.
C11_ScoreIsWeightedSum ==
  epc = "generated" =>
    /\ email.personalization_score =
         3 * Bit(feature_rec.is_importer)
         + 2 * Bit(feature_rec.product_mentions # <<>>)
         + 2 * Bit(feature_rec.mentioned_countries # <<>>)
         + Bit(feature_rec.has_financial_indicators)
         + Bit(feature_rec.recent_activity)
    /\ email.personalization_score \in 0..9
    /\ ( /\ feature_rec.is_importer
         /\ Len(feature_rec.product_mentions) = 1
         /\ feature_rec.mentioned_countries = <<>>
         /\ ~feature_rec.has_financial_indicators
         /\ ~feature_rec.recent_activity ) => email.personalization_score = 5

C11_Witness ==
  /\ epc = "generated"
  /\ feature_rec.is_importer
  /\ Len(feature_rec.product_mentions) = 1
  /\ feature_rec.mentioned_countries = <<>>
  /\ ~feature_rec.has_financial_indicators
  /\ ~feature_rec.recent_activity
  /\ email.personalization_score = 5

SubjectLevel(subject) ==
  CASE subject.template \in {"supply_optimisation", "special_offer"} -> "most_personal"
    [] subject.template = "solutions_for_importers" -> "intermediate"
    [] OTHER -> "generic"

BodyLevel(body) ==
  CASE body.value_prop = "specialises" -> "most_personal"
    [] body.value_prop = "clients_on_average" -> "intermediate"
    [] OTHER -> "generic"

LevelOfScore(score) ==
  IF score >= 5 THEN "most_personal"
  ELSE IF score >= 3 THEN "intermediate" ELSE "generic"

NotAString == <<"int">>

\* the news cells of the table, as the words the tokenizer sees
ShortNews == <<W_oborot>>

LongNews == <<W_postavlyaem, W_ehlektroniku, W_kitaya>>

\* a row of the table; tok_fails: the tokenizer raises on this text
Rows ==
  { [inn |-> id, news |-> n, words |-> <<>>, tok_fails |-> FALSE] :
      id \in Ids, n \in {None, NotAString} }
  \cup
  { [inn |-> id, news |-> RawText(ShortNews), words |-> ShortNews, tok_fails |-> FALSE] :
      id \in Ids }
  \cup
  { [inn |-> id, news |-> RawText(LongNews), words |-> LongNews, tok_fails |-> f] :
      id \in Ids, f \in BOOLEAN }

Tables == UNION { [1..n -> Rows] : n \in 0..MaxRows }

\* enricher.analyze(text, company_id) as the loop sees it (enricher.py 199-219)
analyze(row) ==
  IF row.news = NotAString THEN {Raised}
  ELSE IF TooShort(row.news) THEN {Returned(_empty(row.inn))}
  ELSE IF row.tok_fails THEN {OnTokenizerError(row.inn)}
  ELSE { Returned(rec) :
           rec \in UNION { Features(d, row.inn) :
                             d \in { e \in nlp(str_lower(row.news), row.words) :
                                       str_join(<<" ">>, [i \in 1..Len(e.sents) |-> SentText(e.sents[i])]) = e.text } } }

\* faulty variant: the error leaves the loop
OnRowError_abort(i) == [row_i |-> i, ppc |-> "raised"]

\* pipeline.py 59-64: both handlers print and continue
OnRowError(i) == [row_i |-> i + 1, ppc |-> "loop"]

\* pipeline.py 66: not results
NoResults(rs) == rs = <<>>

InitPipeline ==
  /\ ExtractorIdle
  /\ EmailIdle
  /\ SharedIdle
  /\ StoreIdle
  /\ ppc = "loop"
  /\ df \in Tables
  /\ has_columns \in BOOLEAN
  /\ row_i = 1
  /\ results = <<>>
  /\ analyze_calls = <<>>

\* company.news raises AttributeError (pipeline.py 55, 59-61)
RowMalformed ==
  /\ ppc = "loop"
  /\ row_i <= Len(df)
  /\ ~has_columns
  /\ row_i' = OnRowError(row_i).row_i
  /\ ppc' = OnRowError(row_i).ppc
  /\ UNCHANGED <<df, has_columns, results, analyze_calls>>
  /\ UNCHANGED notPipeVars

\* analyze returns, the record is appended (pipeline.py 55-58)
RowAnalyzed ==
  /\ ppc = "loop"
  /\ row_i <= Len(df)
  /\ has_columns
  /\ \E out \in analyze(df[row_i]) :
       /\ out.kind = "return"
       /\ results' = Append(results, out.value)
  /\ analyze_calls' = Append(analyze_calls, row_i)
  /\ row_i' = row_i + 1
  /\ UNCHANGED <<ppc, df, has_columns>>
  /\ UNCHANGED notPipeVars

\* analyze raises (pipeline.py 57, 59-64)
RowRaised ==
  /\ ppc = "loop"
  /\ row_i <= Len(df)
  /\ has_columns
  /\ \E out \in analyze(df[row_i]) : out.kind = "raise"
  /\ analyze_calls' = Append(analyze_calls, row_i)
  /\ row_i' = OnRowError(row_i).row_i
  /\ ppc' = OnRowError(row_i).ppc
  /\ UNCHANGED <<df, has_columns, results>>
  /\ UNCHANGED notPipeVars

\* pipeline.py 66-67
RaiseNoCompany ==
  /\ ppc = "loop"
  /\ row_i > Len(df)
  /\ NoResults(results)
  /\ ppc' = "raised"
  /\ UNCHANGED <<df, has_columns, row_i, results, analyze_calls>>
  /\ UNCHANGED notPipeVars

\* pipeline.py 69-: the records go on to the enriched table
SaveResults ==
  /\ ppc = "loop"
  /\ row_i > Len(df)
  /\ ~NoResults(results)
  /\ ppc' = "saved"
  /\ UNCHANGED <<df, has_columns, row_i, results, analyze_calls>>
  /\ UNCHANGED notPipeVars

NextPipeline ==
  \/ RowMalformed
  \/ RowAnalyzed
  \/ RowRaised
  \/ RaiseNoCompany
  \/ SaveResults

SpecPipeline == InitPipeline /\ [][NextPipeline]_<<vars, otherVars>>

\* the rows before position i on which analyze returned, in input order
RECURSIVE ReturnedRows(_)
ReturnedRows(i) ==
  IF i = 0 THEN <<>>
  ELSE IF has_columns /\ (\E out \in analyze(df[i]) : out.kind = "return")
       THEN Append(ReturnedRows(i - 1), i)
       ELSE ReturnedRows(i - 1)

\* row j failed: its fields are missing or analyze raised on it
RowFailed(j) == ~has_columns \/ (\E out \in analyze(df[j]) : out.kind = "raise")

\* C13: a row that fails (fields missing, or analyze raising) never ends the
\* loop: the loop leaves only after the last row, every row that has its
\* fields is passed to analyze, in order, and the results are exactly one
\* record for each row on which analyze returned, in input order.
C13_FailedRowIsSkipped ==
  /\ ppc \in {"raised", "saved"} => row_i = Len(df) + 1
  /\ ppc = "loop" => row_i \in 1..(Len(df) + 1)
  /\ analyze_calls = (IF has_columns THEN [k \in 1..(row_i - 1) |-> k] ELSE <<>>)
  /\ LET ok == ReturnedRows(row_i - 1)
     IN /\ Len(results) = Len(ok)
        /\ \A k \in 1..Len(ok) : Returned(results[k]) \in analyze(df[ok[k]])

C13_Witness ==
  /\ ppc = "saved"
  /\ Len(df) = 3
  /\ RowFailed(2)
  /\ Len(results) = 2
  /\ results[1].company_id # results[2].company_id
  /\ analyze_calls = <<1, 2, 3>>

\* rows whose record says the text was processed
SuccessfullyProcessed(j) ==
  /\ has_columns
  /\ \E out \in analyze(df[j]) : out.kind = "return" /\ out.value.processed

\* C14: the run ends with the 'no company processed' error when, and only
\* when, no row of the table was successfully processed (text missing or too
\* short, tokenizer failure and malformed rows being the failures).
C14_RaisesIffNoneProcessed ==
  ppc \in {"raised", "saved"} =>
    (ppc = "raised" <=> ~(\E j \in 1..Len(df) : SuccessfullyProcessed(j)))

(***************************************************************************)
(* Calls of analyze on one extractor, one after another and interleaved    *)
(* (enricher.py 181-219): what a call reads and what it assigns.           *)
(***************************************************************************)
W_chipy == [text |-> <<"ch","i","p","y">>,
  lemma |-> <<"ch","i","p">>]

\* the texts of the calls, as the words the tokenizer sees
SharedTexts ==
  { <<W_oborot>>,
    <<W_zakupki, W_chipy, W_ehlektroniku>>,
    <<W_postavlyaem, W_ehlektroniku, W_kitaya>> }

\* the sentence breaks a tokenizer puts into a text of three words
SharedBreaks == { {}, {1} }

\* a tokenizer: for each text, the breaks of its document, or it raises
Tokenizers ==
  [SharedTexts -> {[raises |-> TRUE, breaks |-> {}]}
                  \cup { [raises |-> FALSE, breaks |-> B] : B \in SharedBreaks }]

\* the sets list(set(found)) is applied to
FoundSets ==
  { Range(SelectSeq([i \in 1..Len(ws) |-> ws[i].lemma], LAMBDA l : l \in Range(keys))) :
      ws \in SharedTexts, keys \in {electronics, countries} }

\* list(set(...)) in one process: a fixed order for each set
SetOrders == { f \in [FoundSets -> UNION { Orderings(S) : S \in FoundSets }] :
                 \A S \in FoundSets : f[S] \in Orderings(S) }

\* self.nlp(text.lower()) for the tokenizer tk
Doc(tk, ws) ==
  [text |-> str_lower(RawText(ws)),
   sents |-> SplitAt([i \in 1..Len(ws) |-> Token(ws[i])], tk[ws].breaks)]

\* enricher.py 208-217 with the lists in this process's order
FeaturesInOrder(d, id, ord) ==
  CHOOSE rec \in Features(d, id) :
    /\ rec.product_mentions = ord[Range(rec.product_mentions)]
    /\ rec.mentioned_countries = ord[Range(rec.mentioned_countries)]

\* faulty variant: the guard's threshold is adapted to the texts seen
SelfAfterAnalyze_adapts(e, ws) ==
  [e EXCEPT !.min_text_length = IF Len(RawText(ws)) < e.min_text_length
                                THEN 0 ELSE e.min_text_length]

\* enricher.py 181-219: analyze assigns no attribute of self
SelfAfterAnalyze(e, ws) == e

InitShared ==
  /\ ExtractorIdle
  /\ EmailIdle
  /\ PipelineIdle
  /\ StoreIdle
  /\ \E tk \in Tokenizers : enricher = CompanyEnricher(tk)
  /\ enricher0 = enricher
  /\ set_order \in SetOrders
  /\ probe \in [words : SharedTexts, id : Ids]
  /\ pcall = NoCall
  /\ ocall = NoCall
  /\ probe_rets = {}
  /\ probe_n = 0
  /\ other_n = 0

\* enricher.py 199-206: the guard, then the tokenizer
Begin(c, ws, id) ==
  IF Len(RawText(ws)) < enricher.min_text_length
  THEN [c EXCEPT !.pc = "returning", !.words = ws, !.id = id,
                 !.out = Returned(_empty(id))]
  ELSE IF enricher.nlp[ws].raises
  THEN [c EXCEPT !.pc = "returning", !.words = ws, !.id = id,
                 !.out = OnTokenizerError(id)]
  ELSE [c EXCEPT !.pc = "parsed", !.words = ws, !.id = id,
                 !.sents = {Doc(enricher.nlp, ws).sents}]

\* enricher.py 208-219: the five passes over the document
Extract(c) ==
  [c EXCEPT !.pc = "returning",
            !.out = Returned(FeaturesInOrder(
                      [text |-> str_lower(RawText(c.words)),
                       sents |-> CHOOSE x \in c.sents : TRUE], c.id, set_order))]

ProbeBegin ==
  /\ pcall.pc = "idle"
  /\ probe_n < MaxProbeCalls
  /\ pcall' = Begin(pcall, probe.words, probe.id)
  /\ UNCHANGED <<enricher, enricher0, set_order, probe, ocall, probe_rets, probe_n, other_n>>
  /\ UNCHANGED notSharedVars

ProbeExtract ==
  /\ pcall.pc = "parsed"
  /\ pcall' = Extract(pcall)
  /\ UNCHANGED <<enricher, enricher0, set_order, probe, ocall, probe_rets, probe_n, other_n>>
  /\ UNCHANGED notSharedVars

ProbeReturn ==
  /\ pcall.pc = "returning"
  /\ probe_rets' = probe_rets \cup {pcall.out}
  /\ probe_n' = probe_n + 1
  /\ enricher' = SelfAfterAnalyze(enricher, pcall.words)
  /\ pcall' = NoCall
  /\ UNCHANGED <<enricher0, set_order, probe, ocall, other_n>>
  /\ UNCHANGED notSharedVars

OtherBegin(ws, id) ==
  /\ ocall.pc = "idle"
  /\ other_n < MaxOtherCalls
  /\ ocall' = Begin(ocall, ws, id)
  /\ UNCHANGED <<enricher, enricher0, set_order, probe, pcall, probe_rets, probe_n, other_n>>
  /\ UNCHANGED notSharedVars

OtherExtract ==
  /\ ocall.pc = "parsed"
  /\ ocall' = Extract(ocall)
  /\ UNCHANGED <<enricher, enricher0, set_order, probe, pcall, probe_rets, probe_n, other_n>>
  /\ UNCHANGED notSharedVars

OtherReturn ==
  /\ ocall.pc = "returning"
  /\ other_n' = other_n + 1
  /\ enricher' = SelfAfterAnalyze(enricher, ocall.words)
  /\ ocall' = NoCall
  /\ UNCHANGED <<enricher0, set_order, probe, pcall, probe_rets, probe_n>>
  /\ UNCHANGED notSharedVars

NextShared ==
  \/ ProbeBegin
  \/ ProbeExtract
  \/ ProbeReturn
  \/ /\ ocall.pc = "idle"
     /\ \E ws \in SharedTexts, id \in Ids : OtherBegin(ws, id)
  \/ OtherExtract
  \/ OtherReturn

SpecShared == InitShared /\ [][NextShared]_<<vars, otherVars>>

NonDigitId == "A-7703000003"

\* company_id (str or int): a Python value, its type and its text
CompanyIds ==
  { [type |-> "str", repr |-> v] : v \in Ids \cup {NonDigitId} }
  \cup { [type |-> "int", repr |-> v] : v \in Ids }

\* "Da", "Net", "Neizvestno": the three answers of the form
Answers == {"Da", "Net", "Neizvestno"}

\* str(x), and the text to_csv writes for x
str(x) == x.repr

\* validated.to_csv(VALIDATED_PATH, index=False)
to_csv(frame) ==
  [exists |-> TRUE,
   rows |-> [i \in 1..Len(frame) |->
               [company_id |-> str(frame[i].company_id),
                is_active_importer |-> frame[i].is_active_importer]]]

\* pd.read_csv infers one type for the column: int64 if every cell is a
\* run of digits, object (str) otherwise
ColumnType(cells) ==
  IF cells # <<>> /\ \A i \in 1..Len(cells) : cells[i] \in Ids
  THEN "int" ELSE "str"

read_csv(file) ==
  LET t == ColumnType([i \in 1..Len(file.rows) |-> file.rows[i].company_id])
  IN  [i \in 1..Len(file.rows) |->
         [company_id |-> [type |-> t, repr |-> file.rows[i].company_id],
          is_active_importer |-> file.rows[i].is_active_importer]]

\* app_validator.py 57-62
load_validated(file) == IF file.exists THEN read_csv(file) ELSE <<>>

\* company_id in validated['company_id'].values: equal type and value
Contains(frame, id) == \E i \in 1..Len(frame) : frame[i].company_id = id

\* app_validator.py 84-99: the frame save_validation writes
Saved(frame, id, answer) ==
  LET row == [company_id |-> id, is_active_importer |-> answer]
  IN  IF Contains(frame, id)
      THEN LET idx == CHOOSE i \in 1..Len(frame) :
                        /\ frame[i].company_id = id
                        /\ \A j \in 1..(i - 1) : frame[j].company_id # id
           IN  [frame EXCEPT ![idx] = row]
      ELSE Append(frame, row)

\* the company ids of the enriched table, as a column of type t
Enriched(t) ==
  << [type |-> t, repr |-> "7701000001"], [type |-> t, repr |-> "7702000002"] >>

\* email_composer.py 232-243: the companies emails are written for
Selected(file, enriched, only_validated) ==
  IF only_validated /\ file.exists
  THEN LET validated == read_csv(file)
           active_importers ==
             { str(validated[i].company_id) :
                 i \in { k \in 1..Len(validated) : validated[k].is_active_importer = "Da" } }
       IN  SelectSeq(enriched, LAMBDA c : str(c) \in active_importers)
  ELSE enriched

\* app_validator.py 82: validated = load_validated()
Load(s, id, answer) ==
  /\ sess[s].pc = "idle"
  /\ saves < MaxSaves
  /\ saves' = saves + 1
  /\ sess' = [sess EXCEPT ![s] = [pc |-> "loaded", company_id |-> id,
                                  is_active_importer |-> answer,
                                  validated |-> load_validated(validated_csv)]]
  /\ UNCHANGED <<validated_csv, completed, emails>>
  /\ UNCHANGED notStoreVars

\* app_validator.py 84-102: update or append, write the file, return True
Write(s) ==
  /\ sess[s].pc = "loaded"
  /\ validated_csv' = to_csv(Saved(sess[s].validated, sess[s].company_id,
                                   sess[s].is_active_importer))
  /\ completed' = completed \cup {sess[s].company_id}
  /\ sess' = [sess EXCEPT ![s] = NoSession]
  /\ UNCHANGED <<saves, emails>>
  /\ UNCHANGED notStoreVars

\* generate_emails_batch(only_validated=...) (email_composer.py 219-264)
GenerateEmailsBatch(t, only_validated) ==
  /\ \A s \in Sessions : sess[s].pc = "idle"
  /\ ~emails.called
  /\ emails' = [called |-> TRUE, only_validated |-> only_validated,
                company_ids |-> Selected(validated_csv, Enriched(t), only_validated)]
  /\ UNCHANGED <<validated_csv, sess, saves, completed>>
  /\ UNCHANGED notStoreVars

\* the batch has returned
BatchReturns ==
  /\ emails.called
  /\ emails' = NoEmails
  /\ UNCHANGED <<validated_csv, sess, saves, completed>>
  /\ UNCHANGED notStoreVars

\* one reviewer: save_validation calls one after another, and batches
NextStore ==
  \/ /\ sess[1].pc = "idle"
     /\ ~emails.called
     /\ \E id \in CompanyIds, answer \in Answers : Load(1, id, answer)
  \/ Write(1)
  \/ \E t \in {"str", "int"}, only_validated \in BOOLEAN : GenerateEmailsBatch(t, only_validated)
  \/ BatchReturns

SpecStore == Init /\ [][NextStore]_<<vars, otherVars>>

\* a store one save_validation call has written
WrittenOnce ==
  { to_csv(Saved(<<>>, id, answer)) : id \in CompanyIds, answer \in Answers }

InitSessions ==
  /\ ExtractorIdle
  /\ EmailIdle
  /\ PipelineIdle
  /\ SharedIdle
  /\ validated_csv \in {NoFile} \cup WrittenOnce
  /\ sess = [s \in Sessions |-> NoSession]
  /\ saves = 0
  /\ completed = {}
  /\ emails = NoEmails

\* one call for each session; the second call is for another company than
\* the first
LoadOther(s, id, answer) ==
  /\ saves < Cardinality(Sessions)
  /\ \A o \in Sessions \ {s} : sess[o].pc = "idle" => str(id) \notin { str(c) : c \in completed }
  /\ \A o \in Sessions \ {s} : sess[o].pc # "idle" => str(sess[o].company_id) # str(id)
  /\ Load(s, id, answer)

\* two reviewer sessions: the steps of their save_validation calls interleave
NextSessions ==
  \/ \E s \in Sessions :
       /\ sess[s].pc = "idle"
       /\ \E id \in CompanyIds, answer \in Answers : LoadOther(s, id, answer)
  \/ \E s \in Sessions : Write(s)

SpecSessions == InitSessions /\ [][NextSessions]_<<vars, otherVars>>

\* C16: after any sequence of save_validation calls made one after another,
\* the store holds at most one record per company id (a call for a validated
\* company replaces its record, a call for a new company appends one).
C16_OneRecordPerCompany ==
  \A i, j \in 1..Len(validated_csv.rows) :
    validated_csv.rows[i].company_id = validated_csv.rows[j].company_id => i = j

\* C17: with only_validated=True every email is for a company that has a
\* validation record marking it 'Da', whatever the state of the file.
C17_OnlyActiveImportersGetEmail ==
  (emails.called /\ emails.only_validated) =>
    \A k \in 1..Len(emails.company_ids) :
      \E i \in 1..Len(validated_csv.rows) :
        /\ validated_csv.rows[i].company_id = str(emails.company_ids[k])
        /\ validated_csv.rows[i].is_active_importer = "Da"

\* C18: when the save_validation calls of two sessions, for two different
\* companies, have both returned, the store has a record for both.
C18_NoCompletedValidationLost ==
  (\A s \in Sessions : sess[s].pc = "idle") =>
    \A id \in completed :
      \E i \in 1..Len(validated_csv.rows) : validated_csv.rows[i].company_id = str(id)

====
